---- MODULE Spec2Model ----
(***************************************************************************)
(* Model of the marketplace backend: the requireAuth middleware            *)
(* (apps/backend/src/middleware/auth.ts), the campaign routes              *)
(* (apps/backend/src/routes/campaigns.ts) and the ad-slot routes (the      *)
(* validating revision with PUT/DELETE, and the earlier revision of        *)
(* apps/backend/src/routes/adSlots.ts whose create does not validate).     *)
(*                                                                         *)
(* A request is handled in steps separated at the handler's awaits on the  *)
(* campaign / adSlot tables: a handler with one such await is one action,  *)
(* a handler that reads a row and then writes it (campaign PUT/DELETE,     *)
(* ad-slot book/PUT/DELETE) is two actions with the request pending in     *)
(* between, so that other requests interleave.  requireAuth only reads the *)
(* session, sponsor and publisher tables, which no route writes; it is     *)
(* evaluated in the action that starts the handler.                        *)
(***************************************************************************)
EXTENDS Integers, Sequences, FiniteSets, TLC

VARIABLES
    campaigns,    \* campaign table: id -> row
    adSlots,      \* adSlot table: id -> row
    campaignSeq,  \* number of campaign ids handed out so far
    adSlotSeq,    \* number of adSlot ids handed out so far
    pending,      \* client -> request suspended between its read and its write
    req,          \* the request the last step served: its client and cookie header
    res,          \* the response sent last
    bookings,     \* adSlot id -> bookings logged since the slot last became available
    now           \* the database clock read by NOW()

vars == <<campaigns, adSlots, campaignSeq, adSlotSeq, pending, req, res, bookings, now>>

----------------------------------------------------------------------------
(* Bounds *)

MaxCampaigns == 1
MaxAdSlots == 1
MaxTime == 1

Clients == {"c1", "c2"}

----------------------------------------------------------------------------
(* JavaScript values of request bodies.  A string is the sequence of its   *)
(* tokens: a numeral is spelled character by character, a word is one      *)
(* token.                                                                  *)

Undefined == [t |-> "undefined"]
Null == [t |-> "null"]
Str(s) == [t |-> "string", s |-> s]
Num(n) == [t |-> "number", n |-> n]
Bool(b) == [t |-> "boolean", b |-> b]

Truthy(v) ==
    CASE v.t = "undefined" -> FALSE
      [] v.t = "null" -> FALSE
      [] v.t = "string" -> Len(v.s) > 0
      [] v.t = "number" -> v.n # 0
      [] v.t = "boolean" -> v.b

Digits == {"0", "1", "2", "3", "4", "5", "6", "7", "8", "9"}

DigitVal(c) ==
    CASE c = "0" -> 0 [] c = "1" -> 1 [] c = "2" -> 2 [] c = "3" -> 3
      [] c = "4" -> 4 [] c = "5" -> 5 [] c = "6" -> 6 [] c = "7" -> 7
      [] c = "8" -> 8 [] c = "9" -> 9

\* Length of the longest run of digits of s that starts at position i.
RECURSIVE DigitRun(_, _)
DigitRun(s, i) ==
    IF i <= Len(s) /\ s[i] \in Digits THEN 1 + DigitRun(s, i + 1) ELSE 0

\* Value of the digits s[i .. i+n-1] read as a decimal numeral.
RECURSIVE DigitsValue(_, _, _)
DigitsValue(s, i, n) ==
    IF n = 0 THEN 0 ELSE 10 * DigitsValue(s, i, n - 1) + DigitVal(s[i + n - 1])

\* parseFloat: the longest numeric prefix (sign, digits, fraction); NaN when
\* there is none.  Only the sign of the result is kept: -1, 0 or 1.
ParseFloat(s) ==
    LET neg == Len(s) >= 1 /\ s[1] = "-"
        start == IF Len(s) >= 1 /\ s[1] \in {"-", "+"} THEN 2 ELSE 1
        intLen == DigitRun(s, start)
        dot == start + intLen
        fracLen == IF dot <= Len(s) /\ s[dot] = "." THEN DigitRun(s, dot + 1) ELSE 0
        mag == DigitsValue(s, start, intLen) + DigitsValue(s, dot + 1, fracLen)
    IN  IF intLen + fracLen = 0
        THEN [nan |-> TRUE, sign |-> 0]
        ELSE [nan |-> FALSE, sign |-> IF mag = 0 THEN 0 ELSE IF neg THEN -1 ELSE 1]

\* The comparison parseFloat(x) <= 0, false for NaN.
ParseFloatLeqZero(s) ==
    LET f == ParseFloat(s) IN ~f.nan /\ f.sign <= 0

\* Whether the ORM accepts the value for a Decimal column: a number, or a
\* string that is a numeral as a whole.
DecimalAccepts(v) ==
    \/ v.t = "number"
    \/ /\ v.t = "string"
       /\ LET s == v.s
              start == IF Len(s) >= 1 /\ s[1] \in {"-", "+"} THEN 2 ELSE 1
              intLen == DigitRun(s, start)
              dot == start + intLen
              fracLen == IF dot <= Len(s) /\ s[dot] = "." THEN DigitRun(s, dot + 1) ELSE 0
              end == IF dot <= Len(s) /\ s[dot] = "." THEN dot + fracLen ELSE dot - 1
          IN  intLen + fracLen > 0 /\ end = Len(s)

\* Whether new Date(v) is a valid date: the ORM rejects an Invalid Date.
DateAccepts(v) == v.t = "string" /\ Len(v.s) = 1 /\ v.s[1] \in {"2026-01-01", "2026-12-31"}

----------------------------------------------------------------------------
(* The tables requireAuth reads *)

SessionCookieName == "better-auth.session_token"

Sessions ==
    { [token |-> "tokS1", userId |-> "uS1", expiresAt |-> 9],
      [token |-> "tokB", userId |-> "uB", expiresAt |-> 9],
      [token |-> "tokP1", userId |-> "uP1", expiresAt |-> 9],
      [token |-> "tokP2", userId |-> "uP2", expiresAt |-> 9],
      [token |-> "tokN", userId |-> "uN", expiresAt |-> 9],
      [token |-> "tokShort", userId |-> "uS1", expiresAt |-> 1] }

Sponsors ==
    { [id |-> "s1", userId |-> "uS1"],
      [id |-> "s2", userId |-> "uB"] }

Publishers ==
    { [id |-> "p1", userId |-> "uP1"],
      [id |-> "p2", userId |-> "uP2"],
      [id |-> "p3", userId |-> "uB"] }

\* A cookie header: absent, or the list of its name=value pairs; a value is
\* given by its '.'-separated segments after URI decoding, "%" standing for
\* a malformed escape.
NoHeader == << >>

Cookie(name, segs) == [name |-> name, value |-> segs]

Headers ==
    { NoHeader,
      <<Cookie("theme", <<"dark">>)>>,
      <<Cookie(SessionCookieName, <<"">>)>>,
      <<Cookie(SessionCookieName, <<"%">>)>>,
      <<Cookie(SessionCookieName, <<"tokGone", "sig">>)>>,
      <<Cookie(SessionCookieName, <<"tokShort", "sig">>)>>,
      <<Cookie("theme", <<"dark">>), Cookie(SessionCookieName, <<"tokB", "sig">>)>>,
      <<Cookie(SessionCookieName, <<"tokP1">>)>>,
      <<Cookie(SessionCookieName, <<"tokN", "sig">>)>> }

----------------------------------------------------------------------------
(* requireAuth *)

Absent == "<undefined>"

NoUser == [id |-> Absent, role |-> Absent, sponsorId |-> Absent, publisherId |-> Absent]

Reject(status, error, hint) ==
    [next |-> FALSE, status |-> status, error |-> error, hint |-> hint, user |-> NoUser]

Attach(user) ==
    [next |-> TRUE, status |-> 0, error |-> "", hint |-> "", user |-> user]

\* sessionCookie.match(/better-auth\.session_token=([^;]+)/): the value of
\* the first pair of that name whose value is not empty; << >> when none.
RECURSIVE SessionMatch(_, _)
SessionMatch(header, i) ==
    IF i > Len(header) THEN << >>
    ELSE IF header[i].name = SessionCookieName /\ header[i].value # <<"">>
         THEN header[i].value
         ELSE SessionMatch(header, i + 1)

\* decodeURIComponent throws a URIError on a malformed escape.
DecodeThrows(value) == \E i \in 1..Len(value) : value[i] = "%"

\* A session lookup that does not look at expiresAt.
SessionRows_NoExpiry(actualToken, t) == {s \in Sessions : s.token = actualToken}

SessionRows(actualToken, t) ==
    {s \in Sessions : s.token = actualToken /\ s.expiresAt > t}

\* prisma.sponsor.findUnique / prisma.publisher.findUnique by userId.
RoleRows(table, userId) == {r \in table : r.userId = userId}

\* A resolution that probes the publisher table first.
ResolveUser_PublisherFirst(userId) ==
    LET sponsor == RoleRows(Sponsors, userId)
        publisher == RoleRows(Publishers, userId)
    IN  IF publisher # {}
        THEN Attach([id |-> userId, role |-> "publisher",
                     sponsorId |-> Absent,
                     publisherId |-> (CHOOSE r \in publisher : TRUE).id])
        ELSE IF sponsor # {}
        THEN Attach([id |-> userId, role |-> "sponsor",
                     sponsorId |-> (CHOOSE r \in sponsor : TRUE).id,
                     publisherId |-> Absent])
        ELSE Reject(403, "User role not found", "Contact support")

ResolveUser(userId) ==
    LET sponsor == RoleRows(Sponsors, userId)
        publisher == RoleRows(Publishers, userId)
    IN  IF sponsor # {}
        THEN Attach([id |-> userId, role |-> "sponsor",
                     sponsorId |-> (CHOOSE r \in sponsor : TRUE).id,
                     publisherId |-> Absent])
        ELSE IF publisher # {}
        THEN Attach([id |-> userId, role |-> "publisher",
                     sponsorId |-> Absent,
                     publisherId |-> (CHOOSE r \in publisher : TRUE).id])
        ELSE Reject(403, "User role not found", "Contact support")

requireAuth(header, t) ==
    IF header = NoHeader
    THEN Reject(401, "Authentication required", "Please log in first")
    ELSE LET sessionToken == SessionMatch(header, 1) IN
         IF sessionToken = << >>
         THEN Reject(401, "Invalid session", "Session cookie not found")
         ELSE IF DecodeThrows(sessionToken)
         THEN Reject(500, "Authentication failed", "Server error - try again")
         ELSE LET sessionRows == SessionRows(sessionToken[1], t) IN
              IF sessionRows = {}
              THEN Reject(401, "Session expired", "Please log in again")
              ELSE ResolveUser((CHOOSE s \in sessionRows : TRUE).userId)

\* Every header a request of the model carries.
AllHeaders ==
    Headers \cup
    { <<Cookie(SessionCookieName, <<"tokS1", "sig">>)>>,
      <<Cookie(SessionCookieName, <<"tokP2", "sig">>), Cookie("theme", <<"dark">>)>> }

\* requireAuth tabulated: the middleware reads no table a route writes, so
\* its outcome is a function of the header and the clock.
Authenticate == [header \in AllHeaders |-> [t \in 0..MaxTime |-> requireAuth(header, t)]]

----------------------------------------------------------------------------
(* Responses and the state of a request *)

Idle == [op |-> "idle"]

NoResponse ==
    [op |-> Absent, id |-> 0, status |-> 0, error |-> "",
     hint |-> "", user |-> NoUser, data |-> {}]

Response(op, id, user, status, error, hint, data) ==
    [op |-> op, id |-> id, status |-> status, error |-> error,
     hint |-> hint, user |-> user, data |-> data]

\* The response requireAuth sends when it does not call next().
AuthResponse(op, id, a) ==
    Response(op, 0, NoUser, a.status, a.error, a.hint, {})

\* A JSON body made of rows is recorded by the ids of its rows.
Json(op, id, user, status, data) ==
    Response(op, id, user, status, "", "", {r.id : r \in data})

Error(op, id, user, status, error) ==
    Response(op, id, user, status, error, "", {})

\* A table without the row of the given id.
Without(table, id) == [i \in DOMAIN table \ {id} |-> table[i]]

\* No request served yet, or by the last step.
NoRequest == [client |-> Absent, header |-> NoHeader, resumed |-> FALSE]

\* The step serves a request of client c that arrives with the header.
Arrives(c, header) == req' = [client |-> c, header |-> header, resumed |-> FALSE]

\* The step serves the request of client c that was waiting for the
\* database.
Resumes(c) == req' = [client |-> c, header |-> NoHeader, resumed |-> TRUE]

Init ==
    /\ campaigns = << >>
    /\ adSlots = << >>
    /\ campaignSeq = 0
    /\ adSlotSeq = 0
    /\ pending = [c \in Clients |-> Idle]
    /\ req = NoRequest
    /\ res = NoResponse
    /\ bookings = << >>
    /\ now = 0

\* The database clock advances; sessions expire.
Tick ==
    /\ now < MaxTime
    /\ now' = now + 1
    /\ req' = NoRequest
    /\ UNCHANGED <<campaigns, adSlots, campaignSeq, adSlotSeq, pending, res, bookings>>

----------------------------------------------------------------------------
(* The ORM *)

\* A where clause matches a row on every field it gives; a field whose
\* value is undefined is no condition at all.
WhereMatches(row, where) ==
    \A f \in DOMAIN where :
        IF f = "id" THEN row.id = where.id
        ELSE where[f] = Absent \/ row[f] = where[f]

\* findUnique / findMany: the rows of the table the where clause matches.
FindRows(table, where) ==
    {table[i] : i \in {j \in DOMAIN table : WhereMatches(table[j], where)}}

\* An update that writes every field of data, the undefined ones too.
Merge_WritesUndefined(row, data) ==
    [f \in DOMAIN row |-> IF f \in DOMAIN data THEN data[f] ELSE row[f]]

\* update writes the fields of data that are not undefined.
Merge(row, data) ==
    [f \in DOMAIN row |->
        IF f \notin DOMAIN data THEN row[f]
        ELSE IF f \in {"sponsorId", "publisherId"}
        THEN (IF data[f] = Absent THEN row[f] ELSE data[f])
        ELSE (IF data[f] = Undefined THEN row[f] ELSE data[f])]

----------------------------------------------------------------------------
(* /api/campaigns *)

CampaignIds == 1..MaxCampaigns

DefaultCampaignStatus == "ACTIVE"

\* A complete body; it names another sponsor than any caller that sends it
\* with the other name does.
ValidCampaignBody ==
    [name |-> Str(<<"Launch">>), budget |-> Str(<<"5", "0", "0">>),
     startDate |-> Str(<<"2026-01-01">>), endDate |-> Str(<<"2026-12-31">>),
     status |-> Undefined, sponsorId |-> Str(<<"s2">>)]

CampaignBodies ==
    { ValidCampaignBody,
      [ValidCampaignBody EXCEPT !.name = Str(<<"Relaunch">>),
                                !.status = Str(<<"PAUSED">>),
                                !.sponsorId = Str(<<"s1">>)],
      [ValidCampaignBody EXCEPT !.name = Undefined],
      [ValidCampaignBody EXCEPT !.budget = Undefined],
      [ValidCampaignBody EXCEPT !.startDate = Undefined],
      [ValidCampaignBody EXCEPT !.endDate = Undefined, !.sponsorId = Undefined],
      [ValidCampaignBody EXCEPT !.startDate = Str(<<"soon">>)] }

\* The fields a campaign handler destructures from req.body.
CampaignFields(body) ==
    [name |-> body.name, budget |-> body.budget, startDate |-> body.startDate,
     endDate |-> body.endDate, status |-> body.status]

CampaignInvalid(body) ==
    ~Truthy(body.name) \/ ~Truthy(body.budget)
        \/ ~Truthy(body.startDate) \/ ~Truthy(body.endDate)

\* where: { id, sponsorId: req.user!.sponsorId }
CampaignWhere(id, user) == [id |-> id, sponsorId |-> user.sponsorId]

\* The owner taken from the request body when it names one.
CampaignData_OwnerFromBody(body, user) ==
    [name |-> body.name, budget |-> body.budget, startDate |-> body.startDate,
     endDate |-> body.endDate,
     sponsorId |-> IF "sponsorId" \in DOMAIN body /\ body.sponsorId # Undefined
                   THEN body.sponsorId.s[1] ELSE user.sponsorId]

\* data of prisma.campaign.create and prisma.campaign.update
CampaignData(body, user) ==
    [name |-> body.name, budget |-> body.budget, startDate |-> body.startDate,
     endDate |-> body.endDate, sponsorId |-> user.sponsorId]

\* The campaign table takes the data: the owner is a required column on
\* create, budget is a decimal, the dates are valid dates.
CampaignCreateAccepts(data) ==
    /\ data.sponsorId # Absent
    /\ data.name.t = "string"
    /\ DecimalAccepts(data.budget)
    /\ DateAccepts(data.startDate) /\ DateAccepts(data.endDate)

CampaignUpdateAccepts(data) ==
    /\ data.name.t = "string"
    /\ DecimalAccepts(data.budget)
    /\ DateAccepts(data.startDate) /\ DateAccepts(data.endDate)

NewCampaign(id, data) ==
    [id |-> id, sponsorId |-> data.sponsorId, name |-> data.name,
     budget |-> data.budget, startDate |-> data.startDate,
     endDate |-> data.endDate, status |-> DefaultCampaignStatus]

CampaignFrame == UNCHANGED <<adSlots, adSlotSeq, bookings, now>>

\* GET /api/campaigns
CampaignList(c, header, status) ==
    /\ pending[c] = Idle
    /\ \E a \in {Authenticate[header][now]} :
       LET op == "GET /api/campaigns"
       IN  IF ~a.next
           THEN res' = AuthResponse(op, 0, a)
           ELSE LET where == [sponsorId |-> a.user.sponsorId, status |-> status]
                IN  res' = Json(op, 0, a.user, 200, FindRows(campaigns, where))
    /\ UNCHANGED <<campaigns, campaignSeq, pending>>
    /\ CampaignFrame

\* GET /api/campaigns/:id
CampaignGet(c, header, id) ==
    /\ pending[c] = Idle
    /\ \E a \in {Authenticate[header][now]} :
       LET op == "GET /api/campaigns/:id"
       IN  IF ~a.next
           THEN res' = AuthResponse(op, id, a)
           ELSE LET campaign == FindRows(campaigns, CampaignWhere(id, a.user))
                IN  IF campaign = {}
                    THEN res' = Error(op, id, a.user, 404, "Campaign not found")
                    ELSE res' = Json(op, id, a.user, 200, campaign)
    /\ UNCHANGED <<campaigns, campaignSeq, pending>>
    /\ CampaignFrame

\* POST /api/campaigns
CampaignCreate(c, header, body) ==
    /\ pending[c] = Idle
    /\ \E a \in {Authenticate[header][now]} :
       LET op == "POST /api/campaigns"
           data == CampaignData(body, a.user)
           id == campaignSeq + 1
       IN  IF ~a.next
           THEN /\ res' = AuthResponse(op, 0, a)
                /\ UNCHANGED <<campaigns, campaignSeq>>
           ELSE IF CampaignInvalid(body)
           THEN /\ res' = Error(op, 0, a.user, 400,
                                "Name, budget, startDate, and endDate are required")
                /\ UNCHANGED <<campaigns, campaignSeq>>
           ELSE IF ~CampaignCreateAccepts(data)
           THEN /\ res' = Error(op, 0, a.user, 500, "Failed to create campaign")
                /\ UNCHANGED <<campaigns, campaignSeq>>
           ELSE /\ campaignSeq < MaxCampaigns
                /\ campaigns' = campaigns @@ (id :> NewCampaign(id, data))
                /\ campaignSeq' = id
                /\ res' = Json(op, id, a.user, 201, {NewCampaign(id, data)})
    /\ UNCHANGED pending
    /\ CampaignFrame

\* PUT /api/campaigns/:id, up to the ownership check
CampaignPut(c, header, id, body) ==
    /\ pending[c] = Idle
    /\ \E a \in {Authenticate[header][now]} :
       LET op == "PUT /api/campaigns/:id"
       IN  IF ~a.next
           THEN /\ res' = AuthResponse(op, id, a)
                /\ UNCHANGED pending
           ELSE IF CampaignInvalid(body)
           THEN /\ res' = Error(op, id, a.user, 400,
                                "Name, budget, startDate, and endDate are required")
                /\ UNCHANGED pending
           ELSE IF FindRows(campaigns, CampaignWhere(id, a.user)) = {}
           THEN /\ res' = Error(op, id, a.user, 404, "Campaign not found")
                /\ UNCHANGED pending
           ELSE /\ pending' = [pending EXCEPT ![c] =
                        [op |-> op, id |-> id, user |-> a.user,
                         body |-> CampaignFields(body)]]
                /\ UNCHANGED res
    /\ UNCHANGED <<campaigns, campaignSeq>>
    /\ CampaignFrame

\* PUT /api/campaigns/:id, prisma.campaign.update and the response
CampaignPutWrite(c) ==
    /\ pending[c].op = "PUT /api/campaigns/:id"
    /\ LET r == pending[c]
           data == CampaignData(r.body, r.user)
       IN  IF r.id \notin DOMAIN campaigns \/ ~CampaignUpdateAccepts(data)
           THEN /\ res' = Error(r.op, r.id, r.user, 500, "Failed to update campaign")
                /\ UNCHANGED campaigns
           ELSE /\ campaigns' = [campaigns EXCEPT ![r.id] = Merge(@, data)]
                /\ res' = Json(r.op, r.id, r.user, 200, {Merge(campaigns[r.id], data)})
    /\ pending' = [pending EXCEPT ![c] = Idle]
    /\ UNCHANGED campaignSeq
    /\ CampaignFrame

\* DELETE /api/campaigns/:id, up to the ownership check
CampaignDelete(c, header, id) ==
    /\ pending[c] = Idle
    /\ \E a \in {Authenticate[header][now]} :
       LET op == "DELETE /api/campaigns/:id"
       IN  IF ~a.next
           THEN /\ res' = AuthResponse(op, id, a)
                /\ UNCHANGED pending
           ELSE IF FindRows(campaigns, CampaignWhere(id, a.user)) = {}
           THEN /\ res' = Error(op, id, a.user, 404, "Campaign not found")
                /\ UNCHANGED pending
           ELSE /\ pending' = [pending EXCEPT ![c] =
                        [op |-> op, id |-> id, user |-> a.user]]
                /\ UNCHANGED res
    /\ UNCHANGED <<campaigns, campaignSeq>>
    /\ CampaignFrame

\* DELETE /api/campaigns/:id, prisma.campaign.delete and the response
CampaignDeleteWrite(c) ==
    /\ pending[c].op = "DELETE /api/campaigns/:id"
    /\ LET r == pending[c]
       IN  IF r.id \notin DOMAIN campaigns
           THEN /\ res' = Error(r.op, r.id, r.user, 500, "Failed to delete campaign")
                /\ UNCHANGED campaigns
           ELSE /\ campaigns' = Without(campaigns, r.id)
                /\ res' = Json(r.op, r.id, r.user, 204, {})
    /\ pending' = [pending EXCEPT ![c] = Idle]
    /\ UNCHANGED campaignSeq
    /\ CampaignFrame

CampaignStatusFilters == {Absent, "PAUSED"}

\* The headers of the authenticated callers of the campaign routes:
\* sponsor s1, the user with both rows (sponsor s2), publisher p1.
CampaignHeaders ==
    { <<Cookie(SessionCookieName, <<"tokS1", "sig">>)>>,
      <<Cookie("theme", <<"dark">>), Cookie(SessionCookieName, <<"tokB", "sig">>)>>,
      <<Cookie(SessionCookieName, <<"tokP1">>)>> }

\* A campaign request arrives and runs up to its first response or write.
CampaignStart(c, header) ==
    \/ \E status \in CampaignStatusFilters : CampaignList(c, header, status)
    \/ \E id \in CampaignIds : CampaignGet(c, header, id)
    \/ \E body \in CampaignBodies : CampaignCreate(c, header, body)
    \/ \E id \in CampaignIds, body \in CampaignBodies : CampaignPut(c, header, id, body)
    \/ \E id \in CampaignIds : CampaignDelete(c, header, id)

\* A suspended campaign request resumes.
CampaignResume(c) ==
    \/ CampaignPutWrite(c)
    \/ CampaignDeleteWrite(c)

NextCampaigns ==
    \E c \in Clients :
        \/ \E header \in CampaignHeaders : CampaignStart(c, header) /\ Arrives(c, header)
        \/ CampaignResume(c) /\ Resumes(c)

SpecCampaigns == Init /\ [][NextCampaigns]_vars

----------------------------------------------------------------------------
(* /api/ad-slots *)

AdSlotIds == 1..MaxAdSlots

validTypes == {"DISPLAY", "VIDEO", "NATIVE", "NEWSLETTER", "PODCAST"}

DefaultIsAvailable == TRUE

\* A complete body; it names another publisher than any caller that sends
\* it with the other type does.
ValidAdSlotBody ==
    [name |-> Str(<<"Banner">>), type |-> Str(<<"DISPLAY">>),
     basePrice |-> Str(<<"1", "0", ".", "0", "0">>),
     isAvailable |-> Undefined, publisherId |-> Str(<<"p2">>)]

AdSlotBodies ==
    { ValidAdSlotBody,
      [ValidAdSlotBody EXCEPT !.type = Str(<<"VIDEO">>),
                              !.isAvailable = Bool(FALSE),
                              !.publisherId = Str(<<"p1">>)],
      [ValidAdSlotBody EXCEPT !.name = Undefined],
      [ValidAdSlotBody EXCEPT !.type = Undefined, !.publisherId = Undefined],
      [ValidAdSlotBody EXCEPT !.type = Str(<<"BANNER">>)],
      [ValidAdSlotBody EXCEPT !.basePrice = Undefined],
      [ValidAdSlotBody EXCEPT !.basePrice = Num(10), !.type = Str(<<"BANNER">>)],
      [ValidAdSlotBody EXCEPT !.basePrice = Str(<<"-", "5">>)],
      [ValidAdSlotBody EXCEPT !.basePrice = Str(<<"abc">>)] }

\* The fields the update handler destructures from req.body.
AdSlotFields(body) ==
    [name |-> body.name, type |-> body.type, basePrice |-> body.basePrice,
     isAvailable |-> body.isAvailable]

\* !name || !type || !basePrice
AdSlotMissing(body) ==
    ~Truthy(body.name) \/ ~Truthy(body.type) \/ ~Truthy(body.basePrice)

\* typeof basePrice !== 'string' || parseFloat(basePrice) <= 0
BasePriceInvalid(basePrice) ==
    basePrice.t # "string" \/ ParseFloatLeqZero(basePrice.s)

\* validTypes.includes(type)
TypeValid(type) ==
    type.t = "string" /\ Len(type.s) = 1 /\ type.s[1] \in validTypes

\* The adSlot table takes the data: type is a value of the enum, basePrice
\* is a decimal.
AdSlotAccepts(data) ==
    /\ data.name.t = "string"
    /\ TypeValid(data.type)
    /\ DecimalAccepts(data.basePrice)
    /\ data.publisherId # Absent

\* data of prisma.adSlot.create
AdSlotCreateData(body, user) ==
    [name |-> body.name, type |-> body.type, basePrice |-> body.basePrice,
     publisherId |-> user.publisherId]

NewAdSlot(id, data) ==
    [id |-> id, publisherId |-> data.publisherId, name |-> data.name,
     type |-> data.type.s[1], basePrice |-> data.basePrice,
     isAvailable |-> DefaultIsAvailable]

\* An update that leaves isAvailable as it is when the body omits it.
UpdatedAdSlot_KeepsAvailability(row, body) ==
    [row EXCEPT !.name = body.name, !.type = body.type.s[1],
                !.basePrice = body.basePrice,
                !.isAvailable = IF body.isAvailable # Undefined
                                THEN body.isAvailable.b ELSE @]

\* data of prisma.adSlot.update in PUT, applied to the row
UpdatedAdSlot(row, body) ==
    [row EXCEPT !.name = body.name, !.type = body.type.s[1],
                !.basePrice = body.basePrice,
                !.isAvailable = IF body.isAvailable # Undefined
                                THEN body.isAvailable.b ELSE TRUE]

\* whereClause of the list and get handlers: publishers see their own slots.
AdSlotRoleWhere(where, user) ==
    IF user.role = "publisher"
    THEN where @@ [publisherId |-> user.publisherId]
    ELSE where

\* The lookup by id alone, without the owner.
AdSlotOwnerWhere_IdOnly(id, user) == [id |-> id]

\* where: { id, publisherId: req.user!.publisherId }
AdSlotOwnerWhere(id, user) == [id |-> id, publisherId |-> user.publisherId]

AdSlotFrame == UNCHANGED <<campaigns, campaignSeq, now>>

\* GET /api/ad-slots
AdSlotList(c, header, type, available) ==
    /\ pending[c] = Idle
    /\ \E a \in {Authenticate[header][now]} :
       LET op == "GET /api/ad-slots"
           where == AdSlotRoleWhere([type |-> type], a.user)
       IN  IF ~a.next
           THEN res' = AuthResponse(op, 0, a)
           ELSE res' = Json(op, 0, a.user, 200,
                            {r \in FindRows(adSlots, where) :
                                available = "true" => r.isAvailable})
    /\ UNCHANGED <<adSlots, adSlotSeq, bookings, pending>>
    /\ AdSlotFrame

\* GET /api/ad-slots/:id
AdSlotGet(c, header, id) ==
    /\ pending[c] = Idle
    /\ \E a \in {Authenticate[header][now]} :
       LET op == "GET /api/ad-slots/:id"
           adSlot == FindRows(adSlots, AdSlotRoleWhere([id |-> id], a.user))
       IN  IF ~a.next
           THEN res' = AuthResponse(op, id, a)
           ELSE IF adSlot = {}
           THEN res' = Error(op, id, a.user, 404, "Ad slot not found")
           ELSE res' = Json(op, id, a.user, 200, adSlot)
    /\ UNCHANGED <<adSlots, adSlotSeq, bookings, pending>>
    /\ AdSlotFrame

\* The checks of POST /api/ad-slots and PUT /api/ad-slots/:id before the
\* table is touched: the status and error of the rejection, status 0 when
\* the request passes.
AdSlotValidation(verb, body, user) ==
    IF user.role # "publisher"
    THEN [status |-> 403, error |-> "Only publishers can " \o verb \o " ad slots"]
    ELSE IF AdSlotMissing(body)
    THEN [status |-> 400, error |-> "Name, type, and basePrice are required"]
    ELSE IF BasePriceInvalid(body.basePrice)
    THEN [status |-> 400, error |-> "Base price must be a positive number"]
    ELSE IF ~TypeValid(body.type)
    THEN [status |-> 400, error |-> "Type must be one of: DISPLAY, VIDEO, NATIVE, NEWSLETTER, PODCAST"]
    ELSE [status |-> 0, error |-> ""]

\* The checks of POST /api/ad-slots in the revision that does not validate.
AdSlotValidationUnvalidated(body, user) ==
    IF user.role # "publisher"
    THEN [status |-> 403, error |-> "Only publishers can create ad slots"]
    ELSE IF AdSlotMissing(body)
    THEN [status |-> 400, error |-> "Name, type, and basePrice are required"]
    ELSE [status |-> 0, error |-> ""]

\* POST /api/ad-slots after requireAuth, given the outcome of its checks.
AdSlotCreateWith(op, a, v, body) ==
    LET data == AdSlotCreateData(body, a.user)
        id == adSlotSeq + 1
    IN  IF ~a.next
        THEN /\ res' = AuthResponse(op, 0, a)
             /\ UNCHANGED <<adSlots, adSlotSeq, bookings>>
        ELSE IF v.status # 0
        THEN /\ res' = Error(op, 0, a.user, v.status, v.error)
             /\ UNCHANGED <<adSlots, adSlotSeq, bookings>>
        ELSE IF ~AdSlotAccepts(data)
        THEN /\ res' = Error(op, 0, a.user, 500, "Failed to create ad slot")
             /\ UNCHANGED <<adSlots, adSlotSeq, bookings>>
        ELSE /\ adSlotSeq < MaxAdSlots
             /\ adSlots' = adSlots @@ (id :> NewAdSlot(id, data))
             /\ adSlotSeq' = id
             /\ bookings' = bookings @@ (id :> 0)
             /\ res' = Json(op, id, a.user, 201, {NewAdSlot(id, data)})

\* POST /api/ad-slots
AdSlotCreate(c, header, body) ==
    /\ pending[c] = Idle
    /\ \E a \in {Authenticate[header][now]} :
           AdSlotCreateWith("POST /api/ad-slots", a,
                            AdSlotValidation("create", body, a.user), body)
    /\ UNCHANGED pending
    /\ AdSlotFrame

\* POST /api/ad-slots of routes/adSlots.ts
AdSlotCreateUnvalidated(c, header, body) ==
    /\ pending[c] = Idle
    /\ \E a \in {Authenticate[header][now]} :
           AdSlotCreateWith("POST /api/ad-slots (adSlots.ts)", a,
                            AdSlotValidationUnvalidated(body, a.user), body)
    /\ UNCHANGED pending
    /\ AdSlotFrame

\* A role gate that lets every authenticated caller book.
CanBook_Anyone(user) == TRUE

\* req.user!.role !== 'sponsor' is rejected: only sponsors book.
CanBook(user) == user.role = "sponsor"

\* An availability check that never refuses.
NotAvailable_Never(adSlot) == FALSE

\* !adSlot.isAvailable
NotAvailable(adSlot) == ~adSlot.isAvailable

\* An update that matches the row only while it is still available.
BookUpdateWhere_StillAvailable(row) == row.isAvailable

\* where: { id } of the booking's update: it matches the row whatever its
\* isAvailable is by then.
BookUpdateWhere(row) == TRUE

\* POST /api/ad-slots/:id/book, up to the availability check
AdSlotBook(c, header, id) ==
    /\ pending[c] = Idle
    /\ \E a \in {Authenticate[header][now]} :
       LET op == "POST /api/ad-slots/:id/book"
           adSlot == FindRows(adSlots, [id |-> id])
       IN  IF ~a.next
           THEN /\ res' = AuthResponse(op, id, a)
                /\ UNCHANGED pending
           ELSE IF ~CanBook(a.user)
           THEN /\ res' = Error(op, id, a.user, 403, "Only sponsors can book ad slots")
                /\ UNCHANGED pending
           ELSE IF adSlot = {}
           THEN /\ res' = Error(op, id, a.user, 404, "Ad slot not found")
                /\ UNCHANGED pending
           ELSE IF NotAvailable(CHOOSE r \in adSlot : TRUE)
           THEN /\ res' = Error(op, id, a.user, 400, "Ad slot is no longer available")
                /\ UNCHANGED pending
           ELSE /\ pending' = [pending EXCEPT ![c] =
                        [op |-> op, id |-> id, user |-> a.user]]
                /\ UNCHANGED res
    /\ UNCHANGED <<adSlots, adSlotSeq, bookings>>
    /\ AdSlotFrame

\* An update that leaves the row as it is.
BookUpdate_Keep(row) == row

\* The update of the booking: the row is marked unavailable whatever it
\* holds by now.
BookUpdate(row) == [row EXCEPT !.isAvailable = FALSE]

\* POST /api/ad-slots/:id/book, prisma.adSlot.update and the response
AdSlotBookWrite(c) ==
    /\ pending[c].op = "POST /api/ad-slots/:id/book"
    /\ LET r == pending[c]
       IN  IF r.id \notin DOMAIN adSlots \/ ~BookUpdateWhere(adSlots[r.id])
           THEN /\ res' = Error(r.op, r.id, r.user, 500, "Failed to book ad slot")
                /\ UNCHANGED <<adSlots, bookings>>
           ELSE /\ adSlots' = [adSlots EXCEPT ![r.id] = BookUpdate(@)]
                /\ bookings' = [bookings EXCEPT ![r.id] = @ + 1]
                /\ res' = Json(r.op, r.id, r.user, 200, {BookUpdate(adSlots[r.id])})
    /\ pending' = [pending EXCEPT ![c] = Idle]
    /\ UNCHANGED adSlotSeq
    /\ AdSlotFrame

\* An update that leaves the row as it is.
UnbookUpdate_Keep(row) == row

\* data: { isAvailable: true } of the unbook's update
UnbookUpdate(row) == [row EXCEPT !.isAvailable = TRUE]

\* POST /api/ad-slots/:id/unbook
AdSlotUnbook(c, header, id) ==
    /\ pending[c] = Idle
    /\ \E a \in {Authenticate[header][now]} :
       LET op == "POST /api/ad-slots/:id/unbook"
       IN  IF ~a.next
           THEN /\ res' = AuthResponse(op, id, a)
                /\ UNCHANGED <<adSlots, bookings>>
           ELSE IF id \notin DOMAIN adSlots
           THEN /\ res' = Error(op, id, a.user, 500, "Failed to unbook ad slot")
                /\ UNCHANGED <<adSlots, bookings>>
           ELSE /\ adSlots' = [adSlots EXCEPT ![id] = UnbookUpdate(@)]
                /\ bookings' = [bookings EXCEPT ![id] = 0]
                /\ res' = Json(op, id, a.user, 200, {UnbookUpdate(adSlots[id])})
    /\ UNCHANGED <<adSlotSeq, pending>>
    /\ AdSlotFrame

\* PUT /api/ad-slots/:id, up to the ownership check
AdSlotPut(c, header, id, body) ==
    /\ pending[c] = Idle
    /\ \E a \in {Authenticate[header][now]} :
       LET op == "PUT /api/ad-slots/:id"
           v == AdSlotValidation("update", body, a.user)
       IN  IF ~a.next
           THEN /\ res' = AuthResponse(op, id, a)
                /\ UNCHANGED pending
           ELSE IF v.status # 0
           THEN /\ res' = Error(op, id, a.user, v.status, v.error)
                /\ UNCHANGED pending
           ELSE IF FindRows(adSlots, AdSlotOwnerWhere(id, a.user)) = {}
           THEN /\ res' = Error(op, id, a.user, 404, "Ad slot not found")
                /\ UNCHANGED pending
           ELSE /\ pending' = [pending EXCEPT ![c] =
                        [op |-> op, id |-> id, user |-> a.user,
                         body |-> AdSlotFields(body)]]
                /\ UNCHANGED res
    /\ UNCHANGED <<adSlots, adSlotSeq, bookings>>
    /\ AdSlotFrame

\* PUT /api/ad-slots/:id, prisma.adSlot.update and the response
AdSlotPutWrite(c) ==
    /\ pending[c].op = "PUT /api/ad-slots/:id"
    /\ LET r == pending[c]
       IN  IF r.id \notin DOMAIN adSlots \/ ~DecimalAccepts(r.body.basePrice)
           THEN /\ res' = Error(r.op, r.id, r.user, 500, "Failed to update ad slot")
                /\ UNCHANGED <<adSlots, bookings>>
           ELSE /\ adSlots' = [adSlots EXCEPT ![r.id] = UpdatedAdSlot(@, r.body)]
                /\ bookings' = [bookings EXCEPT ![r.id] = 0]
                /\ res' = Json(r.op, r.id, r.user, 200,
                               {UpdatedAdSlot(adSlots[r.id], r.body)})
    /\ pending' = [pending EXCEPT ![c] = Idle]
    /\ UNCHANGED adSlotSeq
    /\ AdSlotFrame

\* DELETE /api/ad-slots/:id, up to the ownership check
AdSlotDelete(c, header, id) ==
    /\ pending[c] = Idle
    /\ \E a \in {Authenticate[header][now]} :
       LET op == "DELETE /api/ad-slots/:id"
       IN  IF ~a.next
           THEN /\ res' = AuthResponse(op, id, a)
                /\ UNCHANGED pending
           ELSE IF a.user.role # "publisher"
           THEN /\ res' = Error(op, id, a.user, 403, "Only publishers can delete ad slots")
                /\ UNCHANGED pending
           ELSE IF FindRows(adSlots, AdSlotOwnerWhere(id, a.user)) = {}
           THEN /\ res' = Error(op, id, a.user, 404, "Ad slot not found")
                /\ UNCHANGED pending
           ELSE /\ pending' = [pending EXCEPT ![c] =
                        [op |-> op, id |-> id, user |-> a.user]]
                /\ UNCHANGED res
    /\ UNCHANGED <<adSlots, adSlotSeq, bookings>>
    /\ AdSlotFrame

\* DELETE /api/ad-slots/:id, prisma.adSlot.delete and the response
AdSlotDeleteWrite(c) ==
    /\ pending[c].op = "DELETE /api/ad-slots/:id"
    /\ LET r == pending[c]
       IN  IF r.id \notin DOMAIN adSlots
           THEN /\ res' = Error(r.op, r.id, r.user, 500, "Failed to delete ad slot")
                /\ UNCHANGED <<adSlots, bookings>>
           ELSE /\ adSlots' = Without(adSlots, r.id)
                /\ bookings' = Without(bookings, r.id)
                /\ res' = Json(r.op, r.id, r.user, 204, {})
    /\ pending' = [pending EXCEPT ![c] = Idle]
    /\ UNCHANGED adSlotSeq
    /\ AdSlotFrame

AdSlotTypeFilters == {Absent, "VIDEO"}

AdSlotAvailableFilters == {Absent, "true"}

\* The headers of the authenticated callers of the ad-slot routes: sponsor
\* s1, publishers p1 and p2.
AdSlotHeaders ==
    { <<Cookie(SessionCookieName, <<"tokS1", "sig">>)>>,
      <<Cookie(SessionCookieName, <<"tokP1">>)>>,
      <<Cookie(SessionCookieName, <<"tokP2", "sig">>), Cookie("theme", <<"dark">>)>> }

\* An ad-slot request arrives, with a body of the given set when it carries
\* one, and runs up to its first response or write.
AdSlotStartWith(c, header, bodies) ==
    \/ \E type \in AdSlotTypeFilters, available \in AdSlotAvailableFilters :
            AdSlotList(c, header, type, available)
    \/ \E id \in AdSlotIds : AdSlotGet(c, header, id)
    \/ \E body \in bodies : AdSlotCreate(c, header, body)
    \/ \E body \in bodies : AdSlotCreateUnvalidated(c, header, body)
    \/ \E id \in AdSlotIds : AdSlotBook(c, header, id)
    \/ \E id \in AdSlotIds : AdSlotUnbook(c, header, id)
    \/ \E id \in AdSlotIds, body \in bodies : AdSlotPut(c, header, id, body)
    \/ \E id \in AdSlotIds : AdSlotDelete(c, header, id)

AdSlotStart(c, header) == AdSlotStartWith(c, header, AdSlotBodies)

\* The bodies of the requests checked one at a time: two that pass the field
\* checks, one without a name, one with a negative price.
RouteBodies ==
    { ValidAdSlotBody,
      [ValidAdSlotBody EXCEPT !.type = Str(<<"VIDEO">>),
                              !.isAvailable = Bool(FALSE),
                              !.publisherId = Str(<<"p1">>)],
      [ValidAdSlotBody EXCEPT !.name = Undefined],
      [ValidAdSlotBody EXCEPT !.basePrice = Str(<<"-", "5">>)] }

\* A suspended ad-slot request resumes.
AdSlotResume(c) ==
    \/ AdSlotBookWrite(c)
    \/ AdSlotPutWrite(c)
    \/ AdSlotDeleteWrite(c)

\* The ad-slot routes, one request at a time.
NextAdSlots ==
    \E c \in {"c1"} :
        \/ \E header \in AdSlotHeaders :
                AdSlotStartWith(c, header, RouteBodies) /\ Arrives(c, header)
        \/ AdSlotResume(c) /\ Resumes(c)

SpecAdSlots == Init /\ [][NextAdSlots]_vars

\* The requests that write a slot, by sponsor s1 and publisher p1.
BookingHeaders ==
    { <<Cookie(SessionCookieName, <<"tokS1", "sig">>)>>,
      <<Cookie(SessionCookieName, <<"tokP1">>)>> }

BookingBodies ==
    {b \in AdSlotBodies : AdSlotValidation("update", b, [role |-> "publisher"]).status = 0}

BookingStart(c, header) ==
    \/ \E body \in BookingBodies : AdSlotCreate(c, header, body)
    \/ \E id \in AdSlotIds : AdSlotBook(c, header, id)
    \/ \E id \in AdSlotIds : AdSlotUnbook(c, header, id)
    \/ \E id \in AdSlotIds, body \in BookingBodies : AdSlotPut(c, header, id, body)
    \/ \E id \in AdSlotIds : AdSlotDelete(c, header, id)

\* The requests that write a slot, interleaved at their awaits.
NextBooking ==
    \E c \in Clients :
        \/ \E header \in BookingHeaders : BookingStart(c, header) /\ Arrives(c, header)
        \/ AdSlotResume(c) /\ Resumes(c)

SpecBooking == Init /\ [][NextBooking]_vars

----------------------------------------------------------------------------
(* Every route behind requireAuth, for every header, while sessions expire *)

AuthStart(c, header) ==
    \/ CampaignList(c, header, Absent)
    \/ \E id \in CampaignIds : CampaignGet(c, header, id)
    \/ CampaignCreate(c, header, ValidCampaignBody)
    \/ \E id \in CampaignIds : CampaignPut(c, header, id, ValidCampaignBody)
    \/ \E id \in CampaignIds : CampaignDelete(c, header, id)
    \/ AdSlotList(c, header, Absent, Absent)
    \/ \E id \in AdSlotIds : AdSlotGet(c, header, id)
    \/ AdSlotCreate(c, header, ValidAdSlotBody)
    \/ AdSlotCreateUnvalidated(c, header, ValidAdSlotBody)
    \/ \E id \in AdSlotIds : AdSlotBook(c, header, id)
    \/ \E id \in AdSlotIds : AdSlotUnbook(c, header, id)
    \/ \E id \in AdSlotIds : AdSlotPut(c, header, id, ValidAdSlotBody)
    \/ \E id \in AdSlotIds : AdSlotDelete(c, header, id)

\* The identities requireAuth attaches to sponsor s1 and publisher p1.
SponsorS1 == ResolveUser("uS1").user

PublisherP1 == ResolveUser("uP1").user

\* The state after sponsor s1 has created a campaign and publisher p1 an ad
\* slot, and the rows created after them have been deleted again.
InitAuth ==
    /\ campaigns = (1 :> NewCampaign(1, CampaignData(ValidCampaignBody, SponsorS1)))
    /\ adSlots = (1 :> NewAdSlot(1, AdSlotCreateData(ValidAdSlotBody, PublisherP1)))
    /\ campaignSeq = MaxCampaigns
    /\ adSlotSeq = MaxAdSlots
    /\ pending = [c \in Clients |-> Idle]
    /\ req = NoRequest
    /\ res = NoResponse
    /\ bookings = (1 :> 0)
    /\ now = 0

NextAuth ==
    \/ Tick
    \/ \E c \in {"c1"} :
        \/ \E header \in Headers : AuthStart(c, header) /\ Arrives(c, header)
        \/ CampaignResume(c) /\ Resumes(c)
        \/ AdSlotResume(c) /\ Resumes(c)

SpecAuth == InitAuth /\ [][NextAuth]_vars

----------------------------------------------------------------------------
(* Creation and deletion of campaigns and ad slots, one request at a time *)

\* Sponsor s1, the user with both rows (sponsor s2), publisher p1.
CreateHeaders == CampaignHeaders

CreateStart(c, header) ==
    \/ \E body \in CampaignBodies : CampaignCreate(c, header, body)
    \/ \E body \in AdSlotBodies : AdSlotCreate(c, header, body)
    \/ \E body \in AdSlotBodies : AdSlotCreateUnvalidated(c, header, body)
    \/ \E id \in CampaignIds : CampaignDelete(c, header, id)
    \/ \E id \in AdSlotIds : AdSlotDelete(c, header, id)

NextCreate ==
    \E c \in {"c1"} :
        \/ \E header \in CreateHeaders : CreateStart(c, header) /\ Arrives(c, header)
        \/ CampaignDeleteWrite(c) /\ Resumes(c)
        \/ AdSlotDeleteWrite(c) /\ Resumes(c)

SpecCreate == Init /\ [][NextCreate]_vars

----------------------------------------------------------------------------
(* The requests that write a row, by two sponsors and two publishers, one   *)
(* request at a time                                                       *)

\* Sponsors s1 and s2 (the user with both rows), publishers p1 and p2.
OwnerHeaders == CampaignHeaders \cup AdSlotHeaders

OwnerStart(c, header) ==
    \/ CampaignCreate(c, header, ValidCampaignBody)
    \/ \E id \in CampaignIds : CampaignPut(c, header, id, ValidCampaignBody)
    \/ \E id \in CampaignIds : CampaignDelete(c, header, id)
    \/ AdSlotCreate(c, header, ValidAdSlotBody)
    \/ \E id \in AdSlotIds : AdSlotBook(c, header, id)
    \/ \E id \in AdSlotIds : AdSlotUnbook(c, header, id)
    \/ \E id \in AdSlotIds : AdSlotPut(c, header, id, ValidAdSlotBody)
    \/ \E id \in AdSlotIds : AdSlotDelete(c, header, id)

NextOwners ==
    \E c \in {"c1"} :
        \/ \E header \in OwnerHeaders : OwnerStart(c, header) /\ Arrives(c, header)
        \/ CampaignResume(c) /\ Resumes(c)
        \/ AdSlotResume(c) /\ Resumes(c)

SpecOwners == Init /\ [][NextOwners]_vars

----------------------------------------------------------------------------
(* Every request of every caller, interleaved *)

Next ==
    \/ Tick
    \/ \E c \in Clients :
        \/ \E header \in Headers \cup CampaignHeaders \cup AdSlotHeaders :
            \/ CampaignStart(c, header) /\ Arrives(c, header)
            \/ AdSlotStart(c, header) /\ Arrives(c, header)
        \/ CampaignResume(c) /\ Resumes(c)
        \/ AdSlotResume(c) /\ Resumes(c)

Spec == Init /\ [][Next]_vars

----------------------------------------------------------------------------
(* Properties *)

\* The scoped id of a caller: the sponsorId of a sponsor, the publisherId of
\* a publisher.
ScopedId(user) ==
    IF user.role = "sponsor" THEN user.sponsorId ELSE user.publisherId

\* The step serves a request of client c that arrives with the header of an
\* authenticated caller.
Serves(c, header) == Arrives(c, header) /\ Authenticate[header][now].next

\* The caller requireAuth attaches to the request the step serves.
Caller == Authenticate[req'.header][now].user

\* The caller of the request does not own a row of the given owner.
Foreign(owner) == ScopedId(Caller) # owner

CampaignNotFound(op, id) == Error(op, id, Caller, 404, "Campaign not found")

NoCampaignWrite == UNCHANGED <<campaigns, campaignSeq, pending>>

\* C1: for every authenticated caller, of either role, and every campaign
\* whose sponsorId differs from the caller's scoped id, GET, PUT and DELETE
\* on /api/campaigns/:id answer 404 with the response given for an id that
\* does not exist, and the request ends there with the campaign unchanged.
C1_ForeignCampaignIs404 ==
    [][\A c \in Clients, header \in CampaignHeaders :
        Serves(c, header) =>
            \A id \in DOMAIN campaigns :
                Foreign(campaigns[id].sponsorId) =>
                    /\ CampaignGet(c, header, id) =>
                        /\ res' = CampaignNotFound("GET /api/campaigns/:id", id)
                        /\ NoCampaignWrite
                    /\ \A body \in CampaignBodies :
                        CampaignPut(c, header, id, body) =>
                            /\ res' = CampaignNotFound("PUT /api/campaigns/:id", id)
                            /\ NoCampaignWrite
                    /\ CampaignDelete(c, header, id) =>
                        /\ res' = CampaignNotFound("DELETE /api/campaigns/:id", id)
                        /\ NoCampaignWrite]_vars

AdSlotNotFound(op, id) == Error(op, id, Caller, 404, "Ad slot not found")

NoAdSlotWrite == UNCHANGED <<adSlots, adSlotSeq, bookings, pending>>

\* C2 as stated: for every authenticated caller, of either role, and every
\* ad slot whose publisherId differs from the caller's scoped id, GET, PUT
\* and DELETE on /api/ad-slots/:id answer 404 and leave the slot as it is.
C2_ForeignAdSlotIs404 ==
    [][\A c \in Clients, header \in AdSlotHeaders :
        Serves(c, header) =>
            \A id \in DOMAIN adSlots :
                Foreign(adSlots[id].publisherId) =>
                    /\ AdSlotGet(c, header, id) =>
                        res'.status = 404 /\ NoAdSlotWrite
                    /\ \A body \in RouteBodies :
                        AdSlotPut(c, header, id, body) =>
                            res'.status = 404 /\ NoAdSlotWrite
                    /\ AdSlotDelete(c, header, id) =>
                        res'.status = 404 /\ NoAdSlotWrite]_vars

\* The payload passes the field checks of the ad-slot update.
FieldsPass(body) ==
    ~AdSlotMissing(body) /\ ~BasePriceInvalid(body.basePrice) /\ TypeValid(body.type)

\* C2, amended: a publisher that does not own the slot gets 404 on GET and
\* DELETE, and on PUT 404 when the payload passes the field checks and 400
\* when it does not; a sponsor gets 200 on GET and 403 on PUT and DELETE; in
\* every case the request ends there and the slot is left as it is.
C2_ForeignAdSlotByRole ==
    [][\A c \in Clients, header \in AdSlotHeaders :
        Serves(c, header) =>
            \A id \in DOMAIN adSlots :
                Foreign(adSlots[id].publisherId) =>
                    /\ AdSlotGet(c, header, id) =>
                        /\ NoAdSlotWrite
                        /\ IF Caller.role = "publisher"
                           THEN res' = AdSlotNotFound("GET /api/ad-slots/:id", id)
                           ELSE res'.status = 200 /\ res'.data = {id}
                    /\ \A body \in RouteBodies :
                        AdSlotPut(c, header, id, body) =>
                            /\ NoAdSlotWrite
                            /\ IF Caller.role # "publisher" THEN res'.status = 403
                               ELSE IF ~FieldsPass(body) THEN res'.status = 400
                               ELSE res' = AdSlotNotFound("PUT /api/ad-slots/:id", id)
                    /\ AdSlotDelete(c, header, id) =>
                        /\ NoAdSlotWrite
                        /\ IF Caller.role = "publisher"
                           THEN res' = AdSlotNotFound("DELETE /api/ad-slots/:id", id)
                           ELSE res'.status = 403]_vars

\* A publisher was answered 404 on the update of a slot another publisher
\* owns.
C2_ForeignPublisherUpdateRefused ==
    /\ res.op = "PUT /api/ad-slots/:id" /\ res.status = 404
    /\ res.user.role = "publisher"
    /\ res.id \in DOMAIN adSlots
    /\ adSlots[res.id].publisherId # res.user.publisherId

\* The rows of the table other than the given one are as they were.
OthersUnchanged(before, after, id) ==
    /\ DOMAIN after = DOMAIN before \cup {id}
    /\ \A i \in DOMAIN before : after[i] = before[i]

\* C3: a create that answers 201 or adds a row adds exactly one row, whose
\* sponsorId (campaign) or publisherId (ad slot) is the scoped id of the
\* caller that requireAuth resolved, whatever owner the body names; no row
\* is stored without an owner.
C3_CreateStoresCallerAsOwner ==
    [][/\ (res'.status = 201 \/ campaigns' # campaigns) =>
            \A c \in Clients, header \in CreateHeaders, body \in CampaignBodies :
                CampaignCreate(c, header, body) =>
                    /\ Authenticate[header][now].next /\ res'.status = 201
                    /\ res'.id \notin DOMAIN campaigns
                    /\ OthersUnchanged(campaigns, campaigns', res'.id)
                    /\ campaigns'[res'.id].sponsorId = ScopedId(Authenticate[header][now].user)
                    /\ campaigns'[res'.id].sponsorId \in {r.id : r \in Sponsors}
       /\ (res'.status = 201 \/ adSlots' # adSlots) =>
            \A c \in Clients, header \in CreateHeaders, body \in AdSlotBodies :
                (AdSlotCreate(c, header, body) \/ AdSlotCreateUnvalidated(c, header, body)) =>
                    /\ Authenticate[header][now].next /\ res'.status = 201
                    /\ res'.id \notin DOMAIN adSlots
                    /\ OthersUnchanged(adSlots, adSlots', res'.id)
                    /\ adSlots'[res'.id].publisherId = ScopedId(Authenticate[header][now].user)
                    /\ adSlots'[res'.id].publisherId \in {r.id : r \in Publishers}]_vars

\* Sponsor s1 and publisher p1 each created a row from a body that names
\* another owner (s2, p2).
C3_CreatedDespiteBodyOwner ==
    /\ res.status = 201
    /\ ValidCampaignBody.sponsorId = Str(<<"s2">>)
    /\ \E i \in DOMAIN campaigns :
        campaigns[i].name = ValidCampaignBody.name /\ campaigns[i].sponsorId = "s1"
    /\ ValidAdSlotBody.publisherId = Str(<<"p2">>)
    /\ \E i \in DOMAIN adSlots :
        adSlots[i].type = "DISPLAY" /\ adSlots[i].publisherId = "p1"

BookOp == "POST /api/ad-slots/:id/book"

\* Client c has read the slot of the given id, found it available, and has
\* not yet written it.
BookPending(c, id) ==
    pending[c] # Idle /\ pending[c].op = BookOp /\ pending[c].id = id

\* C4: a booking that has read its slot as available writes it without
\* looking at it again: as long as the slot exists, the write answers 200,
\* leaves the slot unavailable and counts as one more successful booking
\* since the last unbook or update, also when another booking of the same
\* slot has succeeded in between; two bookings that both read the slot before
\* either writes it therefore both succeed.
C4_BookWriteIgnoresAvailability ==
    [][\A c \in Clients, id \in DOMAIN adSlots :
        (BookPending(c, id) /\ pending'[c] = Idle) =>
            /\ res'.op = BookOp /\ res'.status = 200 /\ res'.data = {id}
            /\ id \in DOMAIN adSlots' /\ ~adSlots'[id].isAvailable
            /\ bookings'[id] = bookings[id] + 1
            /\ \A d \in Clients \ {c} : pending'[d] = pending[d]]_vars

\* One slot has been booked twice with 200 and no unbook or update in
\* between.
C4_BookedTwice ==
    /\ res.op = BookOp /\ res.status = 200
    /\ res.id \in DOMAIN adSlots
    /\ bookings[res.id] = 2
    /\ ~adSlots[res.id].isAvailable

\* No record and no request in flight changes.
NoWrite == UNCHANGED <<campaigns, campaignSeq, adSlots, adSlotSeq, bookings, pending>>

\* C5: a booking request by a sponsor for an existing slot whose isAvailable
\* is false answers 400 'Ad slot is no longer available' and changes no
\* record.
C5_BookUnavailableIs400 ==
    [][\A c \in Clients, header \in AdSlotHeaders :
        (Serves(c, header) /\ Caller.role = "sponsor") =>
            \A id \in DOMAIN adSlots :
                (~adSlots[id].isAvailable /\ AdSlotBook(c, header, id)) =>
                    /\ res' = Error(BookOp, id, Caller, 400,
                                    "Ad slot is no longer available")
                    /\ NoWrite]_vars

\* A sponsor was answered 400 on booking a slot that had been booked.
C5_RefusedBookedSlot ==
    /\ res.op = BookOp /\ res.status = 400
    /\ res.user.role = "sponsor"
    /\ res.id \in DOMAIN adSlots
    /\ ~adSlots[res.id].isAvailable
    /\ bookings[res.id] = 1

\* C6: a booking request for an available slot by an authenticated caller
\* whose role is not sponsor answers 403 'Only sponsors can book ad slots';
\* the slot stays available and no record changes.
C6_NonSponsorBookIs403 ==
    [][\A c \in Clients, header \in AdSlotHeaders :
        (Serves(c, header) /\ Caller.role # "sponsor") =>
            \A id \in DOMAIN adSlots :
                (adSlots[id].isAvailable /\ AdSlotBook(c, header, id)) =>
                    /\ res' = Error(BookOp, id, Caller, 403,
                                    "Only sponsors can book ad slots")
                    /\ adSlots'[id].isAvailable
                    /\ NoWrite]_vars

\* A publisher was answered 403 on booking a slot that is available.
C6_PublisherRefused ==
    /\ res.op = BookOp /\ res.status = 403
    /\ res.user.role = "publisher"
    /\ res.id \in DOMAIN adSlots
    /\ adSlots[res.id].isAvailable

CreateOp == "POST /api/ad-slots"

PutOp == "PUT /api/ad-slots/:id"

\* Slot A of the scenario: created from basePrice "10.00" and type DISPLAY,
\* and booked once since.
BookedScenarioSlot(id) ==
    /\ adSlots[id].basePrice = ValidAdSlotBody.basePrice
    /\ adSlots[id].type = "DISPLAY"
    /\ ~adSlots[id].isAvailable
    /\ bookings[id] = 1

\* C7: with requests handled one after the other, (1) a publisher P that
\* creates a slot with basePrice "10.00" and type DISPLAY gets 201 and the
\* new slot A is P's and available; (2) a sponsor S that books the available
\* A has its request run to the write, which answers 200 and leaves A
\* unavailable; (3) S booking A again gets 400 'Ad slot is no longer
\* available' with nothing changed; (4) a publisher Q other than P that
\* updates A with a payload that passes validation gets 404 with nothing
\* changed.
C7_CreateBookRebookForeignUpdate ==
    [][\A c \in Clients :
        /\ \A header \in AdSlotHeaders :
            Serves(c, header) =>
                /\ (Caller.role = "publisher" /\ AdSlotCreate(c, header, ValidAdSlotBody)) =>
                    /\ res'.status = 201
                    /\ res'.id \notin DOMAIN adSlots
                    /\ DOMAIN adSlots' = DOMAIN adSlots \cup {res'.id}
                    /\ adSlots'[res'.id].isAvailable
                    /\ adSlots'[res'.id].publisherId = Caller.publisherId
                    /\ adSlots'[res'.id].basePrice = Str(<<"1", "0", ".", "0", "0">>)
                    /\ adSlots'[res'.id].type = "DISPLAY"
                /\ \A id \in DOMAIN adSlots :
                    (Caller.role = "sponsor" /\ AdSlotBook(c, header, id)) =>
                        IF adSlots[id].isAvailable
                        THEN /\ BookPending(c, id)'
                             /\ UNCHANGED <<adSlots, bookings, res>>
                        ELSE /\ res' = Error(BookOp, id, Caller, 400,
                                             "Ad slot is no longer available")
                             /\ NoWrite
                /\ \A id \in DOMAIN adSlots, body \in RouteBodies :
                    (/\ BookedScenarioSlot(id)
                     /\ FieldsPass(body)
                     /\ Caller.role = "publisher"
                     /\ Foreign(adSlots[id].publisherId)
                     /\ AdSlotPut(c, header, id, body)) =>
                        /\ res' = AdSlotNotFound(PutOp, id)
                        /\ NoWrite
        /\ \A id \in DOMAIN adSlots :
            BookPending(c, id) =>
                /\ pending'[c] = Idle
                /\ res'.op = BookOp /\ res'.status = 200 /\ res'.id = id
                /\ adSlots' = [adSlots EXCEPT ![id].isAvailable = FALSE]
                /\ bookings'[id] = 1]_vars

\* The end of the scenario: publisher p2 was answered 404 on updating the
\* slot that p1 created with basePrice "10.00" and type DISPLAY and that was
\* booked once.
C7_ScenarioEnd ==
    /\ res.op = PutOp /\ res.status = 404
    /\ res.user.publisherId = "p2"
    /\ res.id \in DOMAIN adSlots
    /\ adSlots[res.id].publisherId = "p1"
    /\ BookedScenarioSlot(res.id)

\* The session tokens a cookie header carries: the first segment of every
\* non-empty value under the session cookie's name.
TokensOf(header) ==
    {header[i].value[1] : i \in {j \in 1..Len(header) :
        header[j].name = SessionCookieName /\ header[j].value # <<"">>}}

\* The users with a session row for a token of the header that has not
\* expired at time t.
SessionUsers(header, t) ==
    {s.userId : s \in {x \in Sessions : x.token \in TokensOf(header) /\ x.expiresAt > t}}

\* The header's token cannot be percent-decoded.
Malformed(header) == "%" \in TokensOf(header)

\* The answer of a request that requireAuth turned away: no identity, no
\* record in the response, nothing written, no handler left in flight.
TurnedAway == res'.user = NoUser /\ res'.data = {} /\ NoWrite

\* The step serves a request that arrives, with a header that carries no
\* valid session.
ArrivesWithoutSession ==
    req'.client \in Clients /\ ~req'.resumed /\ SessionUsers(req'.header, now) = {}

\* C8 as stated: a request without a valid session (no cookie header, no
\* session token in the cookie, or no live session row for the token) is
\* answered 401, with hint 'Please log in first' when the cookie header or
\* the token is absent, and its handler never runs.
C8_NoSessionIs401LogInFirst ==
    [][ArrivesWithoutSession =>
            /\ res'.status = 401
            /\ TokensOf(req'.header) = {} => res'.hint = "Please log in first"
            /\ TurnedAway]_vars

\* C8, amended: a request without a valid session whose token, if any,
\* decodes is answered 401 and its handler never runs; the hint is 'Please
\* log in first' only when there is no cookie header, 'Session cookie not
\* found' when the header carries no session token, and 'Please log in
\* again' when the token has no live session row. A token that cannot be
\* percent-decoded is answered 500, the handler not run either.
C8_NoSessionIs401ByCase ==
    [][ArrivesWithoutSession =>
            /\ TurnedAway
            /\ IF req'.header = NoHeader
               THEN res'.status = 401 /\ res'.hint = "Please log in first"
               ELSE IF TokensOf(req'.header) = {}
               THEN res'.status = 401 /\ res'.hint = "Session cookie not found"
               ELSE IF Malformed(req'.header)
               THEN res'.status = 500
               ELSE res'.status = 401 /\ res'.hint = "Please log in again"]_vars

\* After the clock passed the expiry of sponsor s1's session, s1's request
\* to delete the stored campaign was answered 401 with 'Please log in
\* again' and the campaign and the slot are still there.
C8_ExpiredSessionTurnedAway ==
    /\ now > 0
    /\ req.header = <<Cookie(SessionCookieName, <<"tokShort", "sig">>)>>
    /\ res.op = "DELETE /api/campaigns/:id"
    /\ res.status = 401 /\ res.hint = "Please log in again"
    /\ campaigns = (1 :> NewCampaign(1, CampaignData(ValidCampaignBody, SponsorS1)))
    /\ 1 \in DOMAIN adSlots

\* C10: for a valid session of user U, requireAuth attaches role sponsor
\* with the sponsor row's id whenever U has a sponsor row, also when U has a
\* publisher row as well; role publisher with the publisher row's id when U
\* has only a publisher row; the identity carries no other scoped id; and
\* when U has neither row the request is answered 403 'User role not found'
\* and its handler is not run.
C10_ResolverPrefersSponsor ==
    [][(req'.client \in Clients /\ ~req'.resumed) =>
        \A U \in SessionUsers(req'.header, now) :
            LET sponsor == {r \in Sponsors : r.userId = U}
                publisher == {r \in Publishers : r.userId = U}
                user == IF pending'[req'.client] # Idle
                        THEN pending'[req'.client].user ELSE res'.user
            IN  IF sponsor # {}
                THEN /\ user.id = U /\ user.role = "sponsor"
                     /\ \E r \in sponsor : user.sponsorId = r.id
                     /\ user.publisherId = Absent
                ELSE IF publisher # {}
                THEN /\ user.id = U /\ user.role = "publisher"
                     /\ \E r \in publisher : user.publisherId = r.id
                     /\ user.sponsorId = Absent
                ELSE /\ res'.status = 403 /\ res'.error = "User role not found"
                     /\ TurnedAway]_vars

\* The user with both a sponsor row and a publisher row was served as
\* sponsor s2.
C10_BothRowsServedAsSponsor ==
    /\ res.status = 200
    /\ req.header \in Headers /\ SessionUsers(req.header, now) = {"uB"}
    /\ res.user.id = "uB" /\ res.user.role = "sponsor" /\ res.user.sponsorId = "s2"
    /\ \E r \in Publishers : r.userId = "uB"

\* The base prices of the request bodies that are values greater than 0.
PositivePrices == {Str(<<"1", "0", ".", "0", "0">>), Num(10)}

\* The types of the request bodies that are in the enumerated set.
EnumeratedTypes ==
    {Str(<<t>>) : t \in {"DISPLAY", "VIDEO", "NATIVE", "NEWSLETTER", "PODCAST"}}

\* C9: an ad-slot create request by a publisher whose basePrice is not a
\* value greater than 0, or whose type is not one of DISPLAY, VIDEO, NATIVE,
\* NEWSLETTER, PODCAST, is answered 400 and no ad slot is created, by either
\* revision of the route.
C9_InvalidAdSlotCreateIs400 ==
    [][(req'.client \in Clients /\ ~req'.resumed) =>
        \A body \in AdSlotBodies :
            (/\ body.basePrice \notin PositivePrices \/ body.type \notin EnumeratedTypes
             /\ Authenticate[req'.header][now].next
             /\ Authenticate[req'.header][now].user.role = "publisher"
             /\ \/ AdSlotCreate(req'.client, req'.header, body)
                \/ AdSlotCreateUnvalidated(req'.client, req'.header, body)) =>
                    /\ res'.status = 400
                    /\ UNCHANGED <<adSlots, adSlotSeq>>]_vars

\* C11: no step changes the owner of a row that exists before and after it,
\* and a row that appears is new (its id was never handed out) and is owned
\* by the caller of the request that creates it; so after any sequence of
\* create, update, delete, book and unbook requests every campaign's
\* sponsorId and every ad slot's publisherId is the scoped id of its
\* creator.
C11_OwnerNeverChanges ==
    [][/\ \A id \in DOMAIN campaigns' :
            IF id \in DOMAIN campaigns
            THEN campaigns'[id].sponsorId = campaigns[id].sponsorId
            ELSE /\ ~req'.resumed /\ id > campaignSeq
                 /\ campaigns'[id].sponsorId = ScopedId(Caller)
       /\ \A id \in DOMAIN adSlots' :
            IF id \in DOMAIN adSlots
            THEN adSlots'[id].publisherId = adSlots[id].publisherId
            ELSE /\ ~req'.resumed /\ id > adSlotSeq
                 /\ adSlots'[id].publisherId = ScopedId(Caller)]_vars

\* Publisher p1 has updated its slot with a body that names publisher p2,
\* while a campaign of sponsor s1 is stored: both rows still have the owner
\* that created them.
C11_UpdatedByOwnerKeepsOwner ==
    /\ res.op = PutOp /\ res.status = 200
    /\ ValidAdSlotBody.publisherId = Str(<<"p2">>)
    /\ res.id \in DOMAIN adSlots
    /\ res.user.publisherId = "p1" /\ adSlots[res.id].publisherId = "p1"
    /\ \E id \in DOMAIN campaigns : campaigns[id].sponsorId = "s1"

----------------------------------------------------------------------------
(* PUT as a full replacement *)

CampaignMutable == {"name", "budget", "startDate", "endDate", "status"}

AdSlotMutable == {"name", "type", "basePrice", "isAvailable"}

\* The column holds the value the payload gave for the field.
HoldsPayload(f, stored, v) ==
    CASE f \in {"status", "type"} ->
            v.t = "string" /\ Len(v.s) = 1 /\ stored = v.s[1]
      [] f = "isAvailable" -> v.t = "boolean" /\ stored = v.b
      [] OTHER -> v # Undefined /\ stored = v

\* C12: a PUT by the owner of a campaign or ad slot whose payload omits a
\* mutable field is answered 400 and writes nothing, and a PUT answered 200
\* leaves every mutable field of the row, for a campaign its status too,
\* equal to the value of the payload.
C12_PutIsFullReplace ==
    [][\A c \in Clients :
        /\ \A header \in CampaignHeaders, body \in CampaignBodies :
             \A id \in DOMAIN campaigns :
                (/\ Serves(c, header)
                 /\ CampaignPut(c, header, id, body)
                 /\ ~Foreign(campaigns[id].sponsorId)
                 /\ \E f \in CampaignMutable : body[f] = Undefined)
                    => res'.status = 400 /\ NoCampaignWrite
        /\ (CampaignPutWrite(c) /\ Resumes(c) /\ res'.status = 200) =>
              \A f \in CampaignMutable :
                  HoldsPayload(f, campaigns'[pending[c].id][f], pending[c].body[f])
        /\ \A header \in AdSlotHeaders, body \in AdSlotBodies :
             \A id \in DOMAIN adSlots :
                (/\ Serves(c, header)
                 /\ AdSlotPut(c, header, id, body)
                 /\ ~Foreign(adSlots[id].publisherId)
                 /\ \E f \in AdSlotMutable : body[f] = Undefined)
                    => res'.status = 400 /\ NoAdSlotWrite
        /\ (AdSlotPutWrite(c) /\ Resumes(c) /\ res'.status = 200) =>
              \A f \in AdSlotMutable :
                  HoldsPayload(f, adSlots'[pending[c].id][f], pending[c].body[f])]_vars

----------------------------------------------------------------------------
(* The lists *)

\* C13: GET /api/campaigns answers every authenticated caller with campaigns
\* of the caller's scoped id only; GET /api/ad-slots answers a publisher with
\* slots of that publisher only and a sponsor with the slots of every
\* publisher that pass the type and available filters.
C13_ListsAreScoped ==
    [][\A c \in Clients :
        /\ \A header \in CampaignHeaders, status \in CampaignStatusFilters :
             (Serves(c, header) /\ CampaignList(c, header, status)) =>
                 \A id \in res'.data :
                     campaigns[id].sponsorId = ScopedId(Caller)
        /\ \A header \in AdSlotHeaders, type \in AdSlotTypeFilters,
              available \in AdSlotAvailableFilters :
             (Serves(c, header) /\ AdSlotList(c, header, type, available)) =>
                 IF Caller.role = "publisher"
                 THEN \A id \in res'.data :
                         adSlots[id].publisherId = Caller.publisherId
                 ELSE res'.data =
                         {id \in DOMAIN adSlots :
                             /\ type # Absent => adSlots[id].type = type
                             /\ available = "true" => adSlots[id].isAvailable}]_vars

----------------------------------------------------------------------------
(* Unbook *)

UnbookOp == "POST /api/ad-slots/:id/unbook"

\* The last response is the 200 of an unbook of the slot.
Unbooked(id) == res.op = UnbookOp /\ res.status = 200 /\ res.id = id

\* C14: an unbook of an existing slot by an authenticated caller, of either
\* role and whoever owns the slot, answers 200, leaves the slot's isAvailable
\* true whatever it was, and changes no other field of the slot, no other slot
\* and no campaign; a booking of the slot by a sponsor that follows passes the
\* availability check and its write answers 200.
C14_UnbookFreesSlot ==
    [][\A c \in Clients :
        /\ \A header \in OwnerHeaders :
             Serves(c, header) =>
                \A id \in DOMAIN adSlots :
                    /\ AdSlotUnbook(c, header, id) =>
                         /\ res'.op = UnbookOp /\ res'.status = 200
                         /\ res'.user = Caller /\ res'.data = {id}
                         /\ adSlots' = [adSlots EXCEPT ![id].isAvailable = TRUE]
                         /\ UNCHANGED <<campaigns, campaignSeq, adSlotSeq, pending>>
                    /\ (/\ Unbooked(id) /\ Caller.role = "sponsor"
                        /\ AdSlotBook(c, header, id)) =>
                            pending'[c].op = BookOp /\ pending'[c].id = id
        /\ \A id \in DOMAIN adSlots :
             (Unbooked(id) /\ BookPending(c, id) /\ pending'[c] = Idle) =>
                 /\ res'.op = BookOp /\ res'.status = 200
                 /\ ~adSlots'[id].isAvailable]_vars

\* A publisher that does not own the slot has unbooked it with 200.
C14_UnbookedByStranger ==
    /\ res.op = UnbookOp /\ res.status = 200
    /\ res.id \in DOMAIN adSlots
    /\ res.user.role = "publisher"
    /\ res.user.publisherId # adSlots[res.id].publisherId
    /\ adSlots[res.id].isAvailable

----------------------------------------------------------------------------
(* The owner's update of a booked slot *)

\* Client c is the owner of the slot and its PUT, whose payload has no
\* isAvailable, has passed the ownership check and has not yet written.
PutPendingWithoutAvailability(c, id) ==
    /\ pending[c] # Idle /\ pending[c].op = PutOp /\ pending[c].id = id
    /\ pending[c].body.isAvailable = Undefined
    /\ pending[c].user.role = "publisher"
    /\ pending[c].user.publisherId = adSlots[id].publisherId

\* The last response is the 200 of a PUT of the slot.
Updated(id) == res.op = PutOp /\ res.status = 200 /\ res.id = id

\* C15: the write of a PUT by the owning publisher whose payload has no
\* isAvailable, when it answers 200, leaves the slot's isAvailable true, also
\* when the slot was booked (isAvailable false) before; a booking by a sponsor
\* that follows the update of a slot left available passes the availability
\* check, without any unbook, and its write answers 200.
C15_OwnerUpdateFreesSlot ==
    [][\A c \in Clients :
        /\ \A id \in DOMAIN adSlots :
             (/\ PutPendingWithoutAvailability(c, id)
              /\ pending'[c] = Idle /\ res'.status = 200) =>
                 /\ res'.op = PutOp /\ res'.id = id
                 /\ adSlots'[id].isAvailable
                 /\ adSlots'[id].publisherId = adSlots[id].publisherId
        /\ \A header \in OwnerHeaders :
             Serves(c, header) =>
                \A id \in DOMAIN adSlots :
                    (/\ Updated(id) /\ adSlots[id].isAvailable
                     /\ Caller.role = "sponsor"
                     /\ AdSlotBook(c, header, id)) =>
                        pending'[c].op = BookOp /\ pending'[c].id = id
        /\ \A id \in DOMAIN adSlots :
             (Updated(id) /\ BookPending(c, id) /\ pending'[c] = Idle) =>
                 /\ res'.op = BookOp /\ res'.status = 200
                 /\ ~adSlots'[id].isAvailable]_vars

\* The owner's PUT without isAvailable is about to write a slot that a
\* sponsor has booked since it was last unbooked or updated.
C15_OwnerUpdatesBookedSlot ==
    \E c \in Clients, id \in DOMAIN adSlots :
        /\ PutPendingWithoutAvailability(c, id)
        /\ ~adSlots[id].isAvailable
        /\ bookings[id] = 1

====
